---- MODULE Spec2Model ----
(***************************************************************************)
(* A model of the ACL management layer of consul:                          *)
(*   - the HTTP handlers of agent/acl_endpoint.go (bootstrap, token and     *)
(*     policy writes), talking to the replicated store through RPCs;        *)
(*   - the "acl token update" command (prefix resolution of identifiers,    *)
(*     merge / replace reconciliation of a token's policy links);           *)
(*   - the "tls cert create" command (the names its files are saved under). *)
(* Each component has its own specification over the module's variables:    *)
(* SpecBootstrap, SpecUpdate, SpecRace, SpecHTTP and SpecCert.              *)
(***************************************************************************)
EXTENDS Integers, Sequences, FiniteSets, TLC

VARIABLES
    aclsEnabled,    \* node -> s.agent.delegate.ACLsEnabled() of that agent
    bootstrapped,   \* the store's bootstrap marker (BootstrapState)
    issuedSecrets,  \* SecretIDs the store has issued so far
    breq,           \* bootstrap request -> its position and response
    tokens,         \* the store's tokens: AccessorID -> token record
    policies,       \* the store's policy IDs (what PolicyList returns)
    cmd,            \* the token-update command: flags, locals, exit code
    http,           \* the request the HTTP server has in hand: inputs, store call, answer
    files,          \* the names of the files in the working directory
    tlscmd          \* the "tls cert create" command: flags, locals, exit code

vars ==
    <<aclsEnabled, bootstrapped, issuedSecrets, breq, tokens, policies, cmd, http,
      files, tlscmd>>

bootVars == <<aclsEnabled, bootstrapped, issuedSecrets, breq>>
updateVars == <<tokens, policies, cmd>>
httpVars == <<http>>
certVars == <<files, tlscmd>>

---------------------------------------------------------------------------
(* Errors. An error is its message, a sequence of text fragments; the nil  *)
(* error is the empty sequence.                                            *)

NilErr == <<>>

\* structs.ACLBootstrapNotAllowedErr
ACLBootstrapNotAllowedErr == <<"ACL bootstrap no longer allowed">>

\* the same error after it crossed an RPC hop (the server appends the reset index)
WrappedNotAllowedErr == <<"rpc error: ", "ACL bootstrap no longer allowed", " (reset index: 13)">>

\* a store failure that has nothing to do with the bootstrap marker
NoLeaderErr == <<"No cluster leader">>

\* strings.Contains(s, sub)
Contains(s, sub) ==
    \E i \in 0..(Len(s) - Len(sub)) : SubSeq(s, i + 1, i + Len(sub)) = sub

---------------------------------------------------------------------------
(* Bootstrap: N requests racing through ACLBootstrap on any node.          *)

NumRequests == 3
NumNodes == 2

Requests == 1..NumRequests
Nodes == 1..NumNodes
SecretIDs == {"s1", "s2"}
AccessorIDs == {"x1", "x2"}

NoToken == [SecretID |-> "", AccessorID |-> ""]
NoResponse == [ID |-> "", SecretID |-> "", AccessorID |-> ""]

IdleRequest ==
    [pc |-> "idle", node |-> 0, calls |-> 0, rpcErr |-> NilErr, out |-> NoToken,
     status |-> 0, ret |-> NoResponse, err |-> NilErr]

\* checkACLDisabled: TRUE when the agent has ACLs disabled (and 401 is written)
checkACLDisabled(n) == ~aclsEnabled[n]

\* ACLBootstrap up to the RPC: the disabled check, then ACL.Bootstrap is issued
ACLBootstrap(r, n) ==
    /\ breq[r].pc = "idle"
    /\ IF checkACLDisabled(n)
         THEN breq' = [breq EXCEPT ![r] =
                [@ EXCEPT !.pc = "done", !.node = n, !.status = 401]]
         ELSE breq' = [breq EXCEPT ![r] =
                [@ EXCEPT !.pc = "rpc", !.node = n, !.calls = @ + 1]]
    /\ UNCHANGED <<aclsEnabled, bootstrapped, issuedSecrets, updateVars, httpVars, certVars>>

\* ACL.Bootstrap in the store: marker and first token are created together,
\* only if the marker does not exist yet
StoreBootstrap(r) ==
    /\ breq[r].pc = "rpc"
    /\ IF bootstrapped
         THEN /\ \E e \in {ACLBootstrapNotAllowedErr, WrappedNotAllowedErr} :
                    breq' = [breq EXCEPT ![r] = [@ EXCEPT !.pc = "reply", !.rpcErr = e]]
              /\ UNCHANGED <<bootstrapped, issuedSecrets>>
         ELSE \E s \in SecretIDs \ issuedSecrets, a \in AccessorIDs :
                /\ bootstrapped' = TRUE
                /\ issuedSecrets' = issuedSecrets \cup {s}
                /\ breq' = [breq EXCEPT ![r] =
                      [@ EXCEPT !.pc = "reply",
                                !.out = [SecretID |-> s, AccessorID |-> a]]]
    /\ UNCHANGED <<aclsEnabled, updateVars, httpVars, certVars>>

\* ACL.Bootstrap failing for a reason of the store's own (no leader, timeout)
StoreBootstrapFails(r) ==
    /\ breq[r].pc = "rpc"
    /\ breq' = [breq EXCEPT ![r] = [@ EXCEPT !.pc = "reply", !.rpcErr = NoLeaderErr]]
    /\ UNCHANGED <<aclsEnabled, bootstrapped, issuedSecrets, updateVars, httpVars, certVars>>

\* a slip: the signal is compared for equality, so a wrapped error is passed on
ACLBootstrapReturn_Equals(r) ==
    /\ breq[r].pc = "reply"
    /\ LET q == breq[r] IN
       IF q.rpcErr # NilErr
         THEN IF q.rpcErr = ACLBootstrapNotAllowedErr
                THEN breq' = [breq EXCEPT ![r] = [@ EXCEPT !.pc = "done", !.status = 403]]
                ELSE breq' = [breq EXCEPT ![r] = [@ EXCEPT !.pc = "done", !.err = q.rpcErr]]
         ELSE breq' = [breq EXCEPT ![r] = [@ EXCEPT !.pc = "done",
                  !.ret = [ID |-> q.out.SecretID, SecretID |-> q.out.SecretID,
                           AccessorID |-> q.out.AccessorID]]]
    /\ UNCHANGED <<aclsEnabled, bootstrapped, issuedSecrets, updateVars, httpVars, certVars>>

\* a slip: the not-allowed answer is swallowed without writing 403
ACLBootstrapReturn_NoStatus(r) ==
    /\ breq[r].pc = "reply"
    /\ LET q == breq[r] IN
       IF q.rpcErr # NilErr
         THEN IF Contains(q.rpcErr, ACLBootstrapNotAllowedErr)
                THEN breq' = [breq EXCEPT ![r] = [@ EXCEPT !.pc = "done"]]
                ELSE breq' = [breq EXCEPT ![r] = [@ EXCEPT !.pc = "done", !.err = q.rpcErr]]
         ELSE breq' = [breq EXCEPT ![r] = [@ EXCEPT !.pc = "done",
                  !.ret = [ID |-> q.out.SecretID, SecretID |-> q.out.SecretID,
                           AccessorID |-> q.out.AccessorID]]]
    /\ UNCHANGED <<aclsEnabled, bootstrapped, issuedSecrets, updateVars, httpVars, certVars>>

\* a slip: another store error makes the handler call the store once more
ACLBootstrapReturn_Retry(r) ==
    /\ breq[r].pc = "reply"
    /\ LET q == breq[r] IN
       IF q.rpcErr # NilErr
         THEN IF Contains(q.rpcErr, ACLBootstrapNotAllowedErr)
                THEN breq' = [breq EXCEPT ![r] = [@ EXCEPT !.pc = "done", !.status = 403]]
                ELSE IF q.calls < 2
                       THEN breq' = [breq EXCEPT ![r] =
                              [@ EXCEPT !.pc = "rpc", !.calls = @ + 1, !.rpcErr = NilErr]]
                       ELSE breq' = [breq EXCEPT ![r] = [@ EXCEPT !.pc = "done", !.err = q.rpcErr]]
         ELSE breq' = [breq EXCEPT ![r] = [@ EXCEPT !.pc = "done",
                  !.ret = [ID |-> q.out.SecretID, SecretID |-> q.out.SecretID,
                           AccessorID |-> q.out.AccessorID]]]
    /\ UNCHANGED <<aclsEnabled, bootstrapped, issuedSecrets, updateVars, httpVars, certVars>>

\* ACLBootstrap after the RPC: the store's answer is mapped to the response
ACLBootstrapReturn(r) ==
    /\ breq[r].pc = "reply"
    /\ LET q == breq[r] IN
       IF q.rpcErr # NilErr
         THEN IF Contains(q.rpcErr, ACLBootstrapNotAllowedErr)
                THEN breq' = [breq EXCEPT ![r] = [@ EXCEPT !.pc = "done", !.status = 403]]
                ELSE breq' = [breq EXCEPT ![r] = [@ EXCEPT !.pc = "done", !.err = q.rpcErr]]
         ELSE breq' = [breq EXCEPT ![r] = [@ EXCEPT !.pc = "done",
                  !.ret = [ID |-> q.out.SecretID, SecretID |-> q.out.SecretID,
                           AccessorID |-> q.out.AccessorID]]]
    /\ UNCHANGED <<aclsEnabled, bootstrapped, issuedSecrets, updateVars, httpVars, certVars>>

---------------------------------------------------------------------------
(* The token-update command against the store's tokens and policies.       *)
(* Identifiers are sequences of characters, so that a prefix is a prefix.  *)

MaxNames == 2
MaxPolicyIDs == 2
MaxRuns == 2

Cmds == {1, 2}

NoID == <<>>

\* api.ACLTokenPolicyLink
NameLink(name) == [ID |-> NoID, Name |-> name]
IDLink(id) == [ID |-> id, Name |-> ""]

\* strings.HasPrefix(x, p)
HasPrefix(x, p) == Len(p) <= Len(x) /\ SubSeq(x, 1, Len(p)) = p

\* acl.GetTokenIDFromPartial / acl.GetPolicyIDFromPartial over the listed
\* identifiers S: the identifier that partial p stands for, or the error
ResolvePartial(p, S) ==
    LET M == {x \in S : HasPrefix(x, p)} IN
    IF p = NoID THEN [id |-> NoID, err |-> "BadRequest"]
    ELSE IF p \in S THEN [id |-> p, err |-> ""]
    ELSE IF M = {} THEN [id |-> NoID, err |-> "NotFound"]
    ELSE IF Cardinality(M) > 1 THEN [id |-> NoID, err |-> "AmbiguousIdentifier"]
    ELSE [id |-> CHOOSE x \in M : TRUE, err |-> ""]

\* a slip: found starts out true, so no requested name is ever appended
NameFound_Always(links, name) == TRUE

\* the loop of lines 84-89: some existing link carries this Name
NameFound(links, name) == \E i \in 1..Len(links) : links[i].Name = name

\* a slip: found is never set, so every requested policy is appended again
IDFound_Never(links, id) == FALSE

\* a slip: a link to the same policy by Name counts as already present
IDFound_AnyKind(links, id) ==
    \E i \in 1..Len(links) :
        \/ links[i].ID = id
        \/ \E p \in policies : p.ID = id /\ p.Name = links[i].Name

\* the loop of lines 106-111: some existing link carries this ID
IDFound(links, id) == \E i \in 1..Len(links) : links[i].ID = id

\* a slip: the new link is put in front of the existing ones
AppendLink_Front(links, link) == <<link>> \o links

\* token.Policies = append(token.Policies, link)
AppendLink(links, link) == Append(links, link)

\* a slip: the existing links are not dropped before the requested ones are added
ReplaceStart_Keep(links) == links

\* token.Policies = nil
ReplaceStart(links) == <<>>

\* lines 82-96: the requested names, merged into the links
RECURSIVE MergeNames(_, _)
MergeNames(links, names) ==
    IF names = <<>> THEN links
    ELSE MergeNames(IF NameFound(links, Head(names))
                      THEN links
                      ELSE AppendLink(links, NameLink(Head(names))),
                    Tail(names))

\* lines 120-124: the requested names, appended one by one
RECURSIVE ReplaceNames(_, _)
ReplaceNames(links, names) ==
    IF names = <<>> THEN links
    ELSE ReplaceNames(AppendLink(links, NameLink(Head(names))), Tail(names))

\* the identifiers PolicyList returns
PolicyIDSet == {p.ID : p \in policies}

\* acl.GetPolicyIDFromPartial for the k-th requested ID; the listing RPC of
\* the failAt-th one fails
PolicyIDFromPartial(partial, k, failAt) ==
    IF k = failAt THEN [id |-> NoID, err |-> "RPC"]
    ELSE ResolvePartial(partial, PolicyIDSet)

\* lines 98-116 (merge) and 126-133 (replace): the requested IDs from the
\* k-th on, each resolved, then merged into or appended to the links; the
\* loop stops at the first one that does not resolve
RECURSIVE PolicyIDLoop(_, _, _, _, _, _)
PolicyIDLoop(merge, links, resolved, ids, k, failAt) ==
    IF k > Len(ids) THEN [links |-> links, resolved |-> resolved, err |-> ""]
    ELSE LET r == PolicyIDFromPartial(ids[k], k, failAt) IN
         IF r.err # "" THEN [links |-> links, resolved |-> resolved, err |-> r.err]
         ELSE PolicyIDLoop(merge,
                           IF merge /\ IDFound(links, r.id)
                             THEN links
                             ELSE AppendLink(links, IDLink(r.id)),
                           Append(resolved, r.id), ids, k + 1, failAt)

\* lines 81-134: the token's new Policies, or the resolution error
Reconcile(merge, links, names, ids, failAt) ==
    IF merge
      THEN PolicyIDLoop(TRUE, MergeNames(links, names), <<>>, ids, 1, failAt)
      ELSE PolicyIDLoop(FALSE, ReplaceNames(ReplaceStart(links), names), <<>>, ids, 1, failAt)

NoTokenRecord ==
    [AccessorID |-> NoID, SecretID |-> "", Description |-> "", Policies |-> <<>>,
     Local |-> FALSE, CreateTime |-> 0]

\* a command that has not been started with arguments yet
OffCommand ==
    [pc |-> "off", tokenID |-> NoID, policyIDs |-> <<>>, policyNames |-> <<>>,
     description |-> "", mergePolicies |-> FALSE,
     resolvedID |-> NoID, tokErr |-> "unset", token |-> NoTokenRecord,
     resolvedPolicies |-> <<>>, polErr |-> "unset",
     updates |-> 0, exit |-> -1, msg |-> "", runs |-> 0]

\* the command after init(), with the flags its arguments set
NewCommand(id, names, ids, desc, merge) ==
    [OffCommand EXCEPT !.pc = "start", !.tokenID = id, !.policyNames = names,
                       !.policyIDs = ids, !.description = desc, !.mergePolicies = merge,
                       !.runs = 1]

Exit1(c, message) == [cmd[c] EXCEPT !.pc = "done", !.exit = 1, !.msg = message]

\* Run, lines 52-65: flag parsing, the -id check, the API client
RunStart(c) ==
    /\ cmd[c].pc = "start"
    /\ \E parseOk \in BOOLEAN, clientOk \in BOOLEAN :
         cmd' = [cmd EXCEPT ![c] =
            IF ~parseOk THEN Exit1(c, "flag parse error")
            ELSE IF cmd[c].tokenID = NoID
              THEN Exit1(c, "Cannot update a token without specifying the -id parameter")
            ELSE IF ~clientOk THEN Exit1(c, "Error connecting to Consul agent")
            ELSE [cmd[c] EXCEPT !.pc = "resolve"]]
    /\ UNCHANGED <<tokens, policies, bootVars, httpVars, certVars>>

\* a slip: the partial identifier is used as it was given
RunResolveToken_Verbatim(c) ==
    /\ cmd[c].pc = "resolve"
    /\ cmd' = [cmd EXCEPT ![c] =
            [cmd[c] EXCEPT !.pc = "read", !.resolvedID = cmd[c].tokenID, !.tokErr = ""]]
    /\ UNCHANGED <<tokens, policies, bootVars, httpVars, certVars>>

\* Run, lines 67-71: the token's AccessorID from the partial one; the
\* TokenList RPC under it may fail
RunResolveToken(c) ==
    /\ cmd[c].pc = "resolve"
    /\ \E listOk \in BOOLEAN :
         LET r == IF listOk THEN ResolvePartial(cmd[c].tokenID, DOMAIN tokens)
                            ELSE [id |-> NoID, err |-> "RPC"] IN
         cmd' = [cmd EXCEPT ![c] =
            IF r.err # ""
              THEN [Exit1(c, "Error determining token ID") EXCEPT !.tokErr = r.err]
              ELSE [cmd[c] EXCEPT !.pc = "read", !.resolvedID = r.id, !.tokErr = ""]]
    /\ UNCHANGED <<tokens, policies, bootVars, httpVars, certVars>>

\* Run, lines 73-77: the TokenRead RPC
RunTokenRead(c) ==
    /\ cmd[c].pc = "read"
    /\ \E readOk \in BOOLEAN :
         cmd' = [cmd EXCEPT ![c] =
            IF readOk /\ cmd[c].resolvedID \in DOMAIN tokens
              THEN [cmd[c] EXCEPT !.pc = "reconcile", !.token = tokens[cmd[c].resolvedID]]
              ELSE Exit1(c, "Error when retrieving current token")]
    /\ UNCHANGED <<tokens, policies, bootVars, httpVars, certVars>>

\* a slip: a policy ID that does not resolve is skipped and the update goes on
RunReconcile_GoOn(c) ==
    /\ cmd[c].pc = "reconcile"
    /\ \E failAt \in 0..Len(cmd[c].policyIDs) :
         LET k == cmd[c]
             res == Reconcile(k.mergePolicies, k.token.Policies, k.policyNames,
                              k.policyIDs, failAt)
             tok == [k.token EXCEPT !.Description = k.description, !.Policies = res.links]
         IN cmd' = [cmd EXCEPT ![c] =
              [k EXCEPT !.pc = "update", !.token = tok,
                        !.resolvedPolicies = res.resolved, !.polErr = res.err]]
    /\ UNCHANGED <<tokens, policies, bootVars, httpVars, certVars>>

\* a slip: the description is only set when -description was given
RunReconcile_KeepDescription(c) ==
    /\ cmd[c].pc = "reconcile"
    /\ \E failAt \in 0..Len(cmd[c].policyIDs) :
         LET k == cmd[c]
             res == Reconcile(k.mergePolicies, k.token.Policies, k.policyNames,
                              k.policyIDs, failAt)
             tok == [k.token EXCEPT
                       !.Description = IF k.description = "" THEN @ ELSE k.description,
                       !.Policies = res.links]
         IN cmd' = [cmd EXCEPT ![c] =
              IF res.err # ""
                THEN [Exit1(c, "Error resolving policy ID") EXCEPT
                         !.token = tok, !.resolvedPolicies = res.resolved,
                         !.polErr = res.err]
                ELSE [k EXCEPT !.pc = "update", !.token = tok,
                               !.resolvedPolicies = res.resolved, !.polErr = ""]]
    /\ UNCHANGED <<tokens, policies, bootVars, httpVars, certVars>>

\* Run, lines 79-134: the description, then the policy links merged or
\* replaced; the PolicyList RPC under the failAt-th resolution fails
RunReconcile(c) ==
    /\ cmd[c].pc = "reconcile"
    /\ \E failAt \in 0..Len(cmd[c].policyIDs) :
         LET k == cmd[c]
             res == Reconcile(k.mergePolicies, k.token.Policies, k.policyNames,
                              k.policyIDs, failAt)
             tok == [k.token EXCEPT !.Description = k.description, !.Policies = res.links]
         IN cmd' = [cmd EXCEPT ![c] =
              IF res.err # ""
                THEN [Exit1(c, "Error resolving policy ID") EXCEPT
                         !.token = tok, !.resolvedPolicies = res.resolved,
                         !.polErr = res.err]
                ELSE [k EXCEPT !.pc = "update", !.token = tok,
                               !.resolvedPolicies = res.resolved, !.polErr = ""]]
    /\ UNCHANGED <<tokens, policies, bootVars, httpVars, certVars>>

\* Run, lines 136-144: the TokenUpdate RPC writes the token, or fails
RunTokenUpdate(c) ==
    /\ cmd[c].pc = "update"
    /\ \E updateOk \in BOOLEAN :
         LET k == cmd[c] IN
         IF updateOk /\ k.token.AccessorID \in DOMAIN tokens
           THEN /\ tokens' = [tokens EXCEPT ![k.token.AccessorID] = k.token]
                /\ cmd' = [cmd EXCEPT ![c] =
                      [k EXCEPT !.pc = "done", !.exit = 0, !.updates = @ + 1,
                                !.msg = "Token updated successfully."]]
           ELSE /\ tokens' = tokens
                /\ cmd' = [cmd EXCEPT ![c] =
                      [Exit1(c, "Failed to update token") EXCEPT !.updates = @ + 1]]
    /\ UNCHANGED <<policies, bootVars, httpVars, certVars>>

\* New, then Run: the same command line is run once more after an update
RunAgain(c) ==
    /\ cmd[c].pc = "done"
    /\ cmd[c].exit = 0
    /\ cmd[c].runs < MaxRuns
    /\ cmd' = [cmd EXCEPT ![c] =
            [NewCommand(cmd[c].tokenID, cmd[c].policyNames, cmd[c].policyIDs,
                        cmd[c].description, cmd[c].mergePolicies)
               EXCEPT !.runs = cmd[c].runs + 1]]
    /\ UNCHANGED <<tokens, policies, bootVars, httpVars, certVars>>

---------------------------------------------------------------------------
(* The token and policy handlers. A handler is one step: it answers from   *)
(* its inputs and from what the store's RPC gives (env).                    *)

NilError == [kind |-> "", reason |-> ""]
NoRPC == [method |-> "none"]
\* what the store's token held, for a handler that reads it: nothing read
NothingSeen == [found |-> FALSE, rules |-> ""]
NoBody == [decoded |-> FALSE, obj |-> [ID |-> ""]]
NothingWritten == [text |-> ""]

\* what a handler wrote and returned, and the RPC it issued: fn is the
\* function that produced the answer
Answer(fn, rpc, status, ret, err) ==
    [fn |-> fn, rpc |-> rpc, status |-> status, ret |-> ret, err |-> err,
     written |-> NothingWritten, translated |-> FALSE]

\* fmt.Fprint(resp, text) / resp.Write(text): the answer a with its body
Written(a, text) == [a EXCEPT !.written = text]

\* the answer a of a handler that called acl.TranslateLegacyRules
Translating(a) == [a EXCEPT !.translated = TRUE]

\* the rule texts a request body or a token can hold
RuleTexts == {"", "key \"\" { policy = \"read\" }", "key {"}

\* acl.TranslateLegacyRules: the current-dialect document of a legacy rule
\* text, or the parse error
TranslateLegacyRules(text) ==
    IF text = "key {"
      THEN [err |-> "Failed to parse ACL rules", out |-> NothingWritten]
      ELSE [err |-> "", out |-> [text |-> "key_prefix", from |-> text]]

\* BadRequestError{Reason: reason}
BadRequest(fn, reason) ==
    Answer(fn, NoRPC, 0, "nil", [kind |-> "BadRequest", reason |-> reason])

\* s.parseToken(req, &args.Token): the credential the requester supplied
parseToken(cred) == cred

\* s.agent.RPC(rpc.method, args, &out) and the return after it
CallStore(fn, rpc, env) ==
    IF env.rpcOk
      THEN Answer(fn, rpc, 0, "out", NilError)
      ELSE Answer(fn, rpc, 0, "nil", [kind |-> "Operational", reason |-> "rpc error"])

\* the read handlers' return: the RPC error, ErrNotFound, or the record
CallStoreRead(fn, rpc, env) ==
    IF env.parseDone THEN Answer(fn, NoRPC, 0, "nil", NilError)
    ELSE IF ~env.rpcOk
      THEN Answer(fn, rpc, 0, "nil", [kind |-> "Operational", reason |-> "rpc error"])
    ELSE IF ~env.found
      THEN Answer(fn, rpc, 0, "nil", [kind |-> "NotFound", reason |-> "ACL not found"])
    ELSE Answer(fn, rpc, 0, "out", NilError)

\* ACLTokenRead
ACLTokenRead(cred, body, tokenID, env) ==
    CallStoreRead("ACLTokenRead",
        [method |-> "ACL.TokenRead", TokenID |-> tokenID, TokenIDType |-> "accessor"], env)

\* a slip: the URL's identifier always wins and the two are never compared
ACLTokenWrite_PathWins(cred, body, tokenID, env) ==
    IF ~body.decoded THEN BadRequest("ACLTokenWrite", "Token decoding failed")
    ELSE CallStore("ACLTokenWrite",
            [method |-> "ACL.TokenUpsert", Token |-> parseToken(cred),
             ACLToken |-> [body.obj EXCEPT !.AccessorID = tokenID]], env)

\* a slip: the identifiers are compared even when the URL carries none
ACLTokenWrite_NoEmptyGuard(cred, body, tokenID, env) ==
    IF ~body.decoded THEN BadRequest("ACLTokenWrite", "Token decoding failed")
    ELSE IF body.obj.AccessorID = ""
      THEN CallStore("ACLTokenWrite",
              [method |-> "ACL.TokenUpsert", Token |-> parseToken(cred),
               ACLToken |-> [body.obj EXCEPT !.AccessorID = tokenID]], env)
    ELSE IF body.obj.AccessorID # tokenID
      THEN BadRequest("ACLTokenWrite", "Token Accessor ID in URL and payload do not match")
    ELSE CallStore("ACLTokenWrite",
              [method |-> "ACL.TokenUpsert", Token |-> parseToken(cred),
               ACLToken |-> body.obj], env)

\* ACLTokenWrite
ACLTokenWrite(cred, body, tokenID, env) ==
    IF ~body.decoded THEN BadRequest("ACLTokenWrite", "Token decoding failed")
    ELSE IF body.obj.AccessorID = ""
      THEN CallStore("ACLTokenWrite",
              [method |-> "ACL.TokenUpsert", Token |-> parseToken(cred),
               ACLToken |-> [body.obj EXCEPT !.AccessorID = tokenID]], env)
    ELSE IF tokenID # "" /\ body.obj.AccessorID # tokenID
      THEN BadRequest("ACLTokenWrite", "Token Accessor ID in URL and payload do not match")
    ELSE CallStore("ACLTokenWrite",
              [method |-> "ACL.TokenUpsert", Token |-> parseToken(cred), ACLToken |-> body.obj], env)

\* ACLTokenDelete
ACLTokenDelete(cred, body, tokenID, env) ==
    LET a == CallStore("ACLTokenDelete",
                [method |-> "ACL.TokenDelete", Token |-> parseToken(cred), TokenID |-> tokenID], env)
    IN IF env.rpcOk THEN [a EXCEPT !.ret = "true"] ELSE a

\* checkACLDisabled's answer when ACLs are disabled
ACLDisabledAnswer ==
    Written(Answer("checkACLDisabled", NoRPC, 401, "nil", NilError),
            [text |-> "ACL support disabled"])

\* a slip: the empty identifier is not refused before the handler is called
ACLTokenCRUDAnswer_NoIDCheck(n, method, path, cred, body, env) ==
    IF checkACLDisabled(n) THEN ACLDisabledAnswer
    ELSE IF method \notin {"GET", "PUT", "DELETE"}
      THEN Answer("ACLTokenCRUD", NoRPC, 0, "nil",
                  [kind |-> "MethodNotAllowed", reason |-> method])
    ELSE IF method = "GET" THEN ACLTokenRead(cred, body, path, env)
    ELSE IF method = "PUT" THEN ACLTokenWrite(cred, body, path, env)
    ELSE ACLTokenDelete(cred, body, path, env)

\* ACLTokenCRUD
ACLTokenCRUDAnswer(n, method, path, cred, body, env) ==
    IF checkACLDisabled(n) THEN ACLDisabledAnswer
    ELSE IF method \notin {"GET", "PUT", "DELETE"}
      THEN Answer("ACLTokenCRUD", NoRPC, 0, "nil",
                  [kind |-> "MethodNotAllowed", reason |-> method])
    ELSE IF path = "" /\ method # "PUT"
      THEN BadRequest("ACLTokenCRUD", "Missing token ID")
    ELSE IF method = "GET" THEN ACLTokenRead(cred, body, path, env)
    ELSE IF method = "PUT" THEN ACLTokenWrite(cred, body, path, env)
    ELSE ACLTokenDelete(cred, body, path, env)

\* ACLTokenCreate
ACLTokenCreateAnswer(n, cred, body, env) ==
    IF checkACLDisabled(n) THEN ACLDisabledAnswer
    ELSE ACLTokenWrite(cred, body, "", env)

\* ACLTokenUpgrade
ACLTokenUpgradeAnswer(n, path, cred, body, env) ==
    IF checkACLDisabled(n) THEN ACLDisabledAnswer
    ELSE IF path = "" THEN BadRequest("ACLTokenUpgrade", "Missing token ID")
    ELSE IF ~body.decoded THEN BadRequest("ACLTokenUpgrade", "Token decoding failed")
    ELSE IF body.obj.AccessorID = ""
      THEN CallStore("ACLTokenUpgrade",
              [method |-> "ACL.TokenUpgrade", Token |-> parseToken(cred),
               ACLToken |-> [body.obj EXCEPT !.AccessorID = path]], env)
    ELSE IF path # "" /\ body.obj.AccessorID # path
      THEN BadRequest("ACLTokenUpgrade", "Token Accessor ID in URL and payload do not match")
    ELSE CallStore("ACLTokenUpgrade",
              [method |-> "ACL.TokenUpgrade", Token |-> parseToken(cred), ACLToken |-> body.obj], env)

\* a slip: the credential is not taken from the request
ACLTokenCloneAnswer_NoToken(n, path, cred, body, eof, env) ==
    IF checkACLDisabled(n) THEN ACLDisabledAnswer
    ELSE IF path = "" THEN BadRequest("ACLTokenClone", "Missing token ID")
    ELSE IF ~body.decoded /\ ~eof
      THEN BadRequest("ACLTokenClone", "Token decoding failed")
    ELSE CallStore("ACLTokenClone",
            [method |-> "ACL.TokenClone", Token |-> "",
             ACLToken |-> [body.obj EXCEPT !.AccessorID = path]], env)

\* ACLTokenClone; eof: the body is empty, which is the one decoding error
\* the handler goes on from
ACLTokenCloneAnswer(n, path, cred, body, eof, env) ==
    IF checkACLDisabled(n) THEN ACLDisabledAnswer
    ELSE IF path = "" THEN BadRequest("ACLTokenClone", "Missing token ID")
    ELSE IF ~body.decoded /\ ~eof
      THEN BadRequest("ACLTokenClone", "Token decoding failed")
    ELSE CallStore("ACLTokenClone",
            [method |-> "ACL.TokenClone", Token |-> parseToken(cred),
             ACLToken |-> [body.obj EXCEPT !.AccessorID = path]], env)

\* ACLPolicyRead
ACLPolicyRead(cred, body, policyID, policyIDType, env) ==
    CallStoreRead("ACLPolicyRead",
        [method |-> "ACL.PolicyRead", PolicyID |-> policyID,
         PolicyIDType |-> policyIDType], env)

\* ACLPolicyWrite
ACLPolicyWrite(cred, body, policyID, policyIDType, env) ==
    IF ~body.decoded THEN BadRequest("ACLPolicyWrite", "Policy decoding failed")
    ELSE LET policy == [body.obj EXCEPT !.Syntax = "current"] IN
      IF policyIDType = "id"
        THEN IF policyID # "" /\ policy.ID # "" /\ policy.ID # policyID
               THEN BadRequest("ACLPolicyWrite", "Policy ID in URL and payload do not match")
             ELSE IF policy.ID = ""
               THEN CallStore("ACLPolicyWrite",
                       [method |-> "ACL.PolicyUpsert", Token |-> parseToken(cred),
                        Policy |-> [policy EXCEPT !.ID = policyID]], env)
             ELSE CallStore("ACLPolicyWrite",
                       [method |-> "ACL.PolicyUpsert", Token |-> parseToken(cred),
                        Policy |-> policy], env)
        ELSE IF policyID # "" /\ policy.Name # "" /\ policy.Name # policyID
               THEN BadRequest("ACLPolicyWrite", "Policy Name in URL and payload do not match")
             ELSE IF policy.Name = ""
               THEN CallStore("ACLPolicyWrite",
                       [method |-> "ACL.PolicyUpsert", Token |-> parseToken(cred),
                        Policy |-> [policy EXCEPT !.Name = ""]], env)
             ELSE CallStore("ACLPolicyWrite",
                       [method |-> "ACL.PolicyUpsert", Token |-> parseToken(cred),
                        Policy |-> policy], env)

\* ACLPolicyDelete
ACLPolicyDelete(cred, body, policyID, policyIDType, env) ==
    LET a == CallStore("ACLPolicyDelete",
                [method |-> "ACL.PolicyDelete", Token |-> parseToken(cred), PolicyID |-> policyID,
                 PolicyIDType |-> policyIDType], env)
    IN IF env.rpcOk THEN [a EXCEPT !.ret = "true"] ELSE a

\* a slip: the switch on idType has no default case, an unknown value
\* leaves ID addressing in place
ACLPolicyCRUDAnswer_DefaultID(n, method, path, idType, cred, body, env) ==
    IF checkACLDisabled(n) THEN ACLDisabledAnswer
    ELSE IF method \notin {"GET", "PUT", "DELETE"}
      THEN Answer("ACLPolicyCRUD", NoRPC, 0, "nil",
                  [kind |-> "MethodNotAllowed", reason |-> method])
    ELSE IF path = "" /\ method # "PUT"
      THEN BadRequest("ACLPolicyCRUD", "Missing policy ID")
    ELSE LET policyIDType == IF idType = "name" THEN "name" ELSE "id" IN
         IF method = "GET" THEN ACLPolicyRead(cred, body, path, policyIDType, env)
         ELSE IF method = "PUT" THEN ACLPolicyWrite(cred, body, path, policyIDType, env)
         ELSE ACLPolicyDelete(cred, body, path, policyIDType, env)

\* ACLPolicyCRUD
ACLPolicyCRUDAnswer(n, method, path, idType, cred, body, env) ==
    IF checkACLDisabled(n) THEN ACLDisabledAnswer
    ELSE IF method \notin {"GET", "PUT", "DELETE"}
      THEN Answer("ACLPolicyCRUD", NoRPC, 0, "nil",
                  [kind |-> "MethodNotAllowed", reason |-> method])
    ELSE IF path = "" /\ method # "PUT"
      THEN BadRequest("ACLPolicyCRUD", "Missing policy ID")
    ELSE IF idType \notin {"", "id", "name"}
      THEN BadRequest("ACLPolicyCRUD", "Invalid value for idType parameter")
    ELSE LET policyIDType == IF idType = "name" THEN "name" ELSE "id" IN
         IF method = "GET" THEN ACLPolicyRead(cred, body, path, policyIDType, env)
         ELSE IF method = "PUT" THEN ACLPolicyWrite(cred, body, path, policyIDType, env)
         ELSE ACLPolicyDelete(cred, body, path, policyIDType, env)

\* ACLPolicyCreate
ACLPolicyCreateAnswer(n, cred, body, env) ==
    ACLPolicyWrite(cred, body, "", "id", env)

\* ACLReplicationStatus
ACLReplicationStatusAnswer(n, env) ==
    IF checkACLDisabled(n) THEN ACLDisabledAnswer
    ELSE IF env.parseDone THEN Answer("ACLReplicationStatus", NoRPC, 0, "nil", NilError)
    ELSE CallStore("ACLReplicationStatus", [method |-> "ACL.ReplicationStatus"], env)

\* ACLRulesTranslate: the body is the rule text
ACLRulesTranslateAnswer(n, body) ==
    IF ~body.decoded THEN BadRequest("ACLRulesTranslate", "Failed to read body")
    ELSE LET t == TranslateLegacyRules(body.obj.Rules) IN
         IF t.err # ""
           THEN Translating(BadRequest("ACLRulesTranslate", t.err))
           ELSE Translating(Written(Answer("ACLRulesTranslate", NoRPC, 0, "nil", NilError),
                                    t.out))

\* a slip: a token without rules is translated like any other
ACLRulesTranslateLegacyTokenAnswer_NoRulesCheck(n, path, env, rules) ==
    IF path = "" THEN BadRequest("ACLRulesTranslateLegacyToken", "Missing token ID")
    ELSE IF env.parseDone
      THEN Answer("ACLRulesTranslateLegacyToken", NoRPC, 0, "nil", NilError)
    ELSE LET fn == "ACLRulesTranslateLegacyToken"
             rpc == [method |-> "ACL.TokenRead", TokenID |-> path,
                     TokenIDType |-> "accessor"]
             t == TranslateLegacyRules(rules)
         IN IF ~env.rpcOk
              THEN Answer(fn, rpc, 0, "nil", [kind |-> "Operational", reason |-> "rpc error"])
            ELSE IF ~env.found
              THEN Answer(fn, rpc, 0, "nil", [kind |-> "NotFound", reason |-> "ACL not found"])
            ELSE IF t.err # ""
              THEN Translating(Answer(fn, rpc, 0, "nil",
                      [kind |-> "Error", reason |-> "Failed to parse legacy rules"]))
            ELSE Translating(Written(Answer(fn, rpc, 0, "nil", NilError), t.out))

\* ACLRulesTranslateLegacyToken; rules: the Rules of the token the store holds
ACLRulesTranslateLegacyTokenAnswer(n, path, env, rules) ==
    IF path = "" THEN BadRequest("ACLRulesTranslateLegacyToken", "Missing token ID")
    ELSE IF env.parseDone
      THEN Answer("ACLRulesTranslateLegacyToken", NoRPC, 0, "nil", NilError)
    ELSE LET fn == "ACLRulesTranslateLegacyToken"
             rpc == [method |-> "ACL.TokenRead", TokenID |-> path,
                     TokenIDType |-> "accessor"]
             t == TranslateLegacyRules(rules)
         IN IF ~env.rpcOk
              THEN Answer(fn, rpc, 0, "nil", [kind |-> "Operational", reason |-> "rpc error"])
            ELSE IF ~env.found
              THEN Answer(fn, rpc, 0, "nil", [kind |-> "NotFound", reason |-> "ACL not found"])
            ELSE IF rules = ""
              THEN Answer(fn, rpc, 0, "nil",
                      [kind |-> "Error",
                       reason |-> "The specified token does not have any rules set"])
            ELSE IF t.err # ""
              THEN Translating(Answer(fn, rpc, 0, "nil",
                      [kind |-> "Error", reason |-> "Failed to parse legacy rules"]))
            ELSE Translating(Written(Answer(fn, rpc, 0, "nil", NilError), t.out))

\* ACLPolicyList
ACLPolicyListAnswer(n, env) ==
    IF checkACLDisabled(n) THEN ACLDisabledAnswer
    ELSE IF env.parseDone THEN Answer("ACLPolicyList", NoRPC, 0, "nil", NilError)
    ELSE CallStore("ACLPolicyList", [method |-> "ACL.PolicyList"], env)

\* ACLTokenList
ACLTokenListAnswer(n, env) ==
    IF checkACLDisabled(n) THEN ACLDisabledAnswer
    ELSE IF env.parseDone THEN Answer("ACLTokenList", NoRPC, 0, "nil", NilError)
    ELSE CallStore("ACLTokenList",
            [method |-> "ACL.TokenList", IncludeLocal |-> TRUE, IncludeGlobal |-> TRUE],
            env)

\* ACLTokenSelf: the token read is the requester's own, by its secret
ACLTokenSelfAnswer(n, cred, env) ==
    CallStoreRead("ACLTokenSelf",
        [method |-> "ACL.TokenRead", TokenID |-> parseToken(cred),
         TokenIDType |-> "secret"], env)

\* the request as received, and the answer a once it is handled
Handled(a) ==
    [http EXCEPT !.phase = "answered", !.fn = a.fn, !.rpc = a.rpc,
                 !.status = a.status, !.ret = a.ret, !.err = a.err,
                 !.written = a.written, !.translated = a.translated]

Envs == [rpcOk : BOOLEAN, found : BOOLEAN, parseDone : BOOLEAN]

\* the ACLTokenCRUD route
ACLTokenCRUD ==
    /\ http.phase = "received" /\ http.handler = "ACLTokenCRUD"
    /\ \E env \in Envs :
         http' = Handled(ACLTokenCRUDAnswer(http.node, http.method, http.path,
                                            http.cred, http.body, env))
    /\ UNCHANGED <<bootVars, updateVars, certVars>>

\* the ACLTokenCreate route
ACLTokenCreate ==
    /\ http.phase = "received" /\ http.handler = "ACLTokenCreate"
    /\ \E env \in Envs :
         http' = Handled(ACLTokenCreateAnswer(http.node, http.cred, http.body, env))
    /\ UNCHANGED <<bootVars, updateVars, certVars>>

\* the ACLTokenUpgrade route
ACLTokenUpgrade ==
    /\ http.phase = "received" /\ http.handler = "ACLTokenUpgrade"
    /\ \E env \in Envs :
         http' = Handled(ACLTokenUpgradeAnswer(http.node, http.path, http.cred,
                                               http.body, env))
    /\ UNCHANGED <<bootVars, updateVars, certVars>>

\* the ACLTokenClone route
ACLTokenClone ==
    /\ http.phase = "received" /\ http.handler = "ACLTokenClone"
    /\ \E env \in Envs, eof \in BOOLEAN :
         http' = Handled(ACLTokenCloneAnswer(http.node, http.path, http.cred,
                                             http.body, eof, env))
    /\ UNCHANGED <<bootVars, updateVars, certVars>>

\* the ACLReplicationStatus route
ACLReplicationStatus ==
    /\ http.phase = "received" /\ http.handler = "ACLReplicationStatus"
    /\ \E env \in Envs :
         http' = Handled(ACLReplicationStatusAnswer(http.node, env))
    /\ UNCHANGED <<bootVars, updateVars, certVars>>

\* the ACLRulesTranslate route
ACLRulesTranslate ==
    /\ http.phase = "received" /\ http.handler = "ACLRulesTranslate"
    /\ http' = Handled(ACLRulesTranslateAnswer(http.node, http.body))
    /\ UNCHANGED <<bootVars, updateVars, certVars>>

\* the ACLRulesTranslateLegacyToken route; the store holds the token of the
\* request (env.found) with some rules, or does not
ACLRulesTranslateLegacyToken ==
    /\ http.phase = "received" /\ http.handler = "ACLRulesTranslateLegacyToken"
    /\ \E env \in Envs, rules \in RuleTexts :
         http' = [Handled(ACLRulesTranslateLegacyTokenAnswer(http.node, http.path,
                                                             env, rules))
                    EXCEPT !.seen = IF env.found
                                      THEN [found |-> TRUE, rules |-> rules]
                                      ELSE NothingSeen]
    /\ UNCHANGED <<bootVars, updateVars, certVars>>

\* the ACLPolicyList route
ACLPolicyList ==
    /\ http.phase = "received" /\ http.handler = "ACLPolicyList"
    /\ \E env \in Envs : http' = Handled(ACLPolicyListAnswer(http.node, env))
    /\ UNCHANGED <<bootVars, updateVars, certVars>>

\* the ACLTokenList route
ACLTokenList ==
    /\ http.phase = "received" /\ http.handler = "ACLTokenList"
    /\ \E env \in Envs : http' = Handled(ACLTokenListAnswer(http.node, env))
    /\ UNCHANGED <<bootVars, updateVars, certVars>>

\* the ACLTokenSelf route
ACLTokenSelf ==
    /\ http.phase = "received" /\ http.handler = "ACLTokenSelf"
    /\ \E env \in Envs :
         http' = Handled(ACLTokenSelfAnswer(http.node, http.cred, env))
    /\ UNCHANGED <<bootVars, updateVars, certVars>>

\* the ACLPolicyCRUD route
ACLPolicyCRUD ==
    /\ http.phase = "received" /\ http.handler = "ACLPolicyCRUD"
    /\ \E env \in Envs :
         http' = Handled(ACLPolicyCRUDAnswer(http.node, http.method, http.path,
                                             http.idType, http.cred, http.body, env))
    /\ UNCHANGED <<bootVars, updateVars, certVars>>

\* the ACLPolicyCreate route
ACLPolicyCreate ==
    /\ http.phase = "received" /\ http.handler = "ACLPolicyCreate"
    /\ \E env \in Envs :
         http' = Handled(ACLPolicyCreateAnswer(http.node, http.cred, http.body, env))
    /\ UNCHANGED <<bootVars, updateVars, certVars>>

---------------------------------------------------------------------------
(* The "tls cert create" command against the files of the working          *)
(* directory. A file name is kept as the parts it is printed from.         *)

\* max := 10000
max == 10000

NoFile == [prefix |-> <<>>, i |-> -1, suffix |-> ""]

\* fmt.Sprintf("%s-%d.pem", prefix, i)
CertFileName(prefix, i) == [prefix |-> prefix, i |-> i, suffix |-> ".pem"]

\* fmt.Sprintf("%s-%d-key.pem", prefix, i)
PkFileName(prefix, i) == [prefix |-> prefix, i |-> i, suffix |-> "-key.pem"]

\* tls.FileDoesNotExist
FileDoesNotExist(name) == name \notin files

\* lines 65-67: exactly one of -server, -client, -cli
OneKind(c) ==
    \/ c.server /\ ~c.client /\ ~c.cli
    \/ ~c.server /\ c.client /\ ~c.cli
    \/ ~c.server /\ ~c.client /\ c.cli

\* lines 72-92: the prefix of the file names, from the first argument (or
\* "consul") and the kind of certificate
Prefix(c) ==
    LET prefix == IF Len(c.args) > 0 THEN c.args[1] ELSE "consul" IN
    IF c.server THEN <<prefix, "-server-", c.dc>>
    ELSE IF c.client THEN <<prefix, "-client">>
    ELSE <<prefix, "-cli">>

\* a slip: the loop stops one short (i < max)
ChooseIndex_Exclusive(prefix) ==
    LET free == {i \in 0..(max - 1) : /\ FileDoesNotExist(CertFileName(prefix, i))
                                      /\ FileDoesNotExist(PkFileName(prefix, i))}
    IN IF free = {} THEN -1 ELSE CHOOSE i \in free : \A j \in free : i <= j

\* the loop of lines 100-112: the first i of 0..max both of whose names are
\* free, or -1 when the loop ends at i = max without one
ChooseIndex(prefix) ==
    LET free == {i \in 0..max : /\ FileDoesNotExist(CertFileName(prefix, i))
                                /\ FileDoesNotExist(PkFileName(prefix, i))}
    IN IF free = {} THEN -1 ELSE CHOOSE i \in free : \A j \in free : i <= j

\* a command that has not been started
OffCert ==
    [pc |-> "off", parse |-> "", ca |-> "", key |-> "", server |-> FALSE, client |-> FALSE,
     cli |-> FALSE, dc |-> "dc1", args |-> <<>>, prefix |-> <<>>, index |-> -1,
     certFileName |-> NoFile, pkFileName |-> NoFile, written |-> {},
     exit |-> -1, msg |-> ""]

\* the command after init(), with the flags its arguments set
NewCert(ca, key, server, client, cli, args) ==
    [OffCert EXCEPT !.pc = "start", !.ca = ca, !.key = key, !.server = server,
                    !.client = client, !.cli = cli, !.args = args]

CertExit(code, message) == [tlscmd EXCEPT !.pc = "done", !.exit = code, !.msg = message]

\* Run, lines 48-96: flag parsing, the -ca-file and -key-file checks, the
\* kind of certificate, the prefix
CertRunStart ==
    /\ tlscmd.pc = "start"
    /\ \E parse \in {"ok", "help", "error"} :
         tlscmd' =
            [(IF parse = "help" THEN CertExit(0, "")
              ELSE IF parse = "error" THEN CertExit(1, "Failed to parse args")
              ELSE IF tlscmd.ca = "" THEN CertExit(1, "Please provide the ca")
              ELSE IF tlscmd.key = "" THEN CertExit(1, "Please provide the key")
              ELSE IF ~OneKind(tlscmd)
                THEN CertExit(1, "Please provide either -server, -client, or -cli")
              ELSE [tlscmd EXCEPT !.pc = "choose", !.prefix = Prefix(tlscmd)])
               EXCEPT !.parse = parse]
    /\ UNCHANGED <<files, bootVars, updateVars, httpVars>>

\* Run, lines 98-112: the file names are chosen
CertChooseName ==
    /\ tlscmd.pc = "choose"
    /\ LET i == ChooseIndex(tlscmd.prefix) IN
         tlscmd' =
            IF i = -1
              THEN CertExit(1, "Could not find a filename that doesn't already exist")
              ELSE [tlscmd EXCEPT !.pc = "generate", !.index = i,
                                  !.certFileName = CertFileName(tlscmd.prefix, i),
                                  !.pkFileName = PkFileName(tlscmd.prefix, i)]
    /\ UNCHANGED <<files, bootVars, updateVars, httpVars>>

\* what can fail between the choice of the names and the first write
GenerateFailures ==
    {"Error reading CA", "Error reading CA key", "ParseSigner", "GenerateSerialNumber",
     "GenerateCert"}

\* Run, lines 114-143: the CA and its key are read, the certificate is made
CertGenerate ==
    /\ tlscmd.pc = "generate"
    /\ \E failure \in GenerateFailures \cup {""} :
         tlscmd' = IF failure # "" THEN CertExit(1, failure)
                                  ELSE [tlscmd EXCEPT !.pc = "saveCert"]
    /\ UNCHANGED <<files, bootVars, updateVars, httpVars>>

\* Run, lines 145-151: os.Create(certFileName) and the certificate written
CertSaveCert ==
    /\ tlscmd.pc = "saveCert"
    /\ \E created \in BOOLEAN :
         IF created
           THEN /\ files' = files \cup {tlscmd.certFileName}
                /\ tlscmd' = [tlscmd EXCEPT !.pc = "savePk",
                                            !.written = @ \cup {tlscmd.certFileName}]
           ELSE /\ files' = files
                /\ tlscmd' = CertExit(1, "os.Create")
    /\ UNCHANGED <<bootVars, updateVars, httpVars>>

\* Run, lines 153-161: os.Create(pkFileName), the key written, return 0
CertSavePk ==
    /\ tlscmd.pc = "savePk"
    /\ \E created \in BOOLEAN :
         IF created
           THEN /\ files' = files \cup {tlscmd.pkFileName}
                /\ tlscmd' = [CertExit(0, "Saved") EXCEPT
                                 !.written = @ \cup {tlscmd.pkFileName}]
           ELSE /\ files' = files
                /\ tlscmd' = CertExit(1, "os.Create")
    /\ UNCHANGED <<bootVars, updateVars, httpVars>>

---------------------------------------------------------------------------
(* The specifications.                                                     *)

\* the HTTP server with no request in hand
NoHTTP ==
    [phase |-> "idle", handler |-> "none", node |-> 0, method |-> "", path |-> "",
     idType |-> "", cred |-> "", body |-> NoBody,
     fn |-> "none", rpc |-> NoRPC, status |-> 0, ret |-> "nil", err |-> NilError,
     written |-> NothingWritten, translated |-> FALSE, seen |-> NothingSeen]

SeqsUpTo(S, n) == UNION {[1..k -> S] : k \in 0..n}

BootstrapInit ==
    /\ aclsEnabled \in [Nodes -> BOOLEAN]
    /\ bootstrapped = FALSE
    /\ issuedSecrets = {}
    /\ breq = [r \in Requests |-> IdleRequest]
    /\ tokens = <<>>
    /\ policies = {}
    /\ cmd = [c \in Cmds |-> OffCommand]
    /\ http = NoHTTP
    /\ files = {}
    /\ tlscmd = OffCert

BootstrapNext ==
    \/ \E r \in Requests, n \in Nodes : ACLBootstrap(r, n)
    \/ \E r \in Requests : StoreBootstrap(r)
    \/ \E r \in Requests : StoreBootstrapFails(r)
    \/ \E r \in Requests : ACLBootstrapReturn(r)

SpecBootstrap == BootstrapInit /\ [][BootstrapNext]_vars

\* the stores and the command lines the update command is run on
TokenIdSets ==
    { {<<"a", "b">>}, {<<"a", "a">>, <<"a", "b">>}, {<<"a">>, <<"a", "b">>} }
TokenPartials == {NoID, <<"a">>, <<"a", "a">>, <<"b">>}
PolicySets ==
    { {},
      {[ID |-> <<"p", "q">>, Name |-> "write"]},
      {[ID |-> <<"p", "p">>, Name |-> "read-only"], [ID |-> <<"p", "q">>, Name |-> "write"]},
      {[ID |-> <<"p">>, Name |-> "admin"], [ID |-> <<"p", "q">>, Name |-> "write"]} }
PolicyPartials == {<<"p">>, <<"p", "q">>}
PolicyNames == {"read-only", "write"}
InitialLinks ==
    { <<>>,
      <<NameLink("read-only")>>,
      <<IDLink(<<"p", "q">>)>>,
      <<[ID |-> <<"p", "p">>, Name |-> "read-only"], NameLink("write")>> }
Descriptions == {"", "replication"}

StoredToken(a, links) ==
    [AccessorID |-> a, SecretID |-> <<"secret-of-">> \o a, Description |-> "old",
     Policies |-> links, Local |-> FALSE, CreateTime |-> 1]

UpdateInit ==
    /\ aclsEnabled = [n \in Nodes |-> TRUE]
    /\ bootstrapped = FALSE
    /\ issuedSecrets = {}
    /\ breq = [r \in Requests |-> IdleRequest]
    /\ http = NoHTTP
    /\ files = {}
    /\ tlscmd = OffCert
    /\ \E S \in TokenIdSets, links \in InitialLinks :
          tokens = [a \in S |-> StoredToken(a, links)]
    /\ policies \in PolicySets
    /\ \E id \in TokenPartials, names \in SeqsUpTo(PolicyNames, MaxNames),
          ids \in SeqsUpTo(PolicyPartials, MaxPolicyIDs),
          desc \in Descriptions, merge \in BOOLEAN :
          cmd = [c \in Cmds |-> IF c = 1 THEN NewCommand(id, names, ids, desc, merge)
                                         ELSE OffCommand]

UpdateNext ==
    \/ \E c \in Cmds : RunStart(c)
    \/ \E c \in Cmds : RunResolveToken(c)
    \/ \E c \in Cmds : RunTokenRead(c)
    \/ \E c \in Cmds : RunReconcile(c)
    \/ \E c \in Cmds : RunTokenUpdate(c)
    \/ \E c \in Cmds : RunAgain(c)

SpecUpdate == UpdateInit /\ [][UpdateNext]_vars

---------------------------------------------------------------------------
(* Bootstrap: what a finished request was answered with.                   *)

Finished(r) == breq[r].pc = "done"
TokenReturned(r) == Finished(r) /\ breq[r].ret # NoResponse
AnsweredForbidden(r) ==
    Finished(r) /\ breq[r].status = 403 /\ breq[r].ret = NoResponse /\ breq[r].err = NilErr
\* the request met an agent with ACLs disabled, or a store that failed for a
\* reason of its own: it was not answered from the bootstrap marker
NotServed(r) ==
    \/ breq[r].node \in Nodes /\ ~aclsEnabled[breq[r].node]
    \/ breq[r].rpcErr # NilErr /\ ~Contains(breq[r].rpcErr, ACLBootstrapNotAllowedErr)
Started == {r \in Requests : breq[r].pc # "idle"}

\* C1: of the N >= 1 bootstrap requests racing against a fresh cluster, on
\* any nodes and in any interleaving, exactly one returns a token and the
\* other N-1 are answered Forbidden (N: the requests started so far, once
\* all of them have finished and each was served by an ACL-enabled agent
\* and an answering store); in every state at most one has returned a token.
C1_ExactlyOneBootstrap ==
    /\ Cardinality({r \in Requests : TokenReturned(r)}) <= 1
    /\ (Started # {} /\ \A r \in Started : Finished(r) /\ ~NotServed(r))
          => /\ Cardinality({r \in Started : TokenReturned(r)}) = 1
             /\ Cardinality({r \in Started : AnsweredForbidden(r)})
                   = Cardinality(Started) - 1

C1_Witness ==
    /\ Started = Requests
    /\ \A r \in Requests : Finished(r) /\ ~NotServed(r)
    /\ TokenReturned(NumRequests)
    /\ \A r \in Requests \ {NumRequests} : AnsweredForbidden(r)
    /\ {breq[r].node : r \in Requests} = Nodes

\* C2: once a bootstrap request has returned a token the marker stays set
\* and the first response stays as it was; from then on the store hands out
\* no token, and every request answered returns no token, never the ID or
\* SecretID of the first one, and is answered Forbidden when it is served.
C2_BootstrapStaysDone ==
    [][(\E r \in Requests : TokenReturned(r)) =>
          /\ bootstrapped /\ bootstrapped'
          /\ \A r \in Requests : TokenReturned(r) => breq'[r] = breq[r]
          /\ \A q \in Requests :
                (breq[q].pc = "rpc" /\ breq'[q].pc = "reply") => breq'[q].out = NoToken
          /\ \A q \in Requests :
                (~Finished(q) /\ breq'[q].pc = "done") =>
                   /\ breq'[q].ret = NoResponse
                   /\ \A r \in Requests : TokenReturned(r) =>
                         /\ breq'[q].ret.SecretID # breq[r].ret.SecretID
                         /\ breq'[q].ret.ID # breq[r].ret.SecretID
                   /\ ~NotServed(q)' =>
                         /\ breq'[q].status = 403
                         /\ breq'[q].err = NilErr]_vars

C2_Witness ==
    \E r \in Requests, q \in Requests :
        /\ TokenReturned(r) /\ breq[r].ret.ID = breq[r].ret.SecretID
        /\ breq[r].ret.SecretID \in SecretIDs
        /\ AnsweredForbidden(q)
        /\ breq[q].rpcErr = WrappedNotAllowedErr

\* C3: a request that passes the ACL check issues exactly one store call and
\* surfaces its answer: a store error carrying the not-allowed signal is
\* answered 403 with no returned error, any other store error is returned
\* unchanged, and in both cases no token is returned.
C3_StoreAnswerSurfaced ==
    \A r \in Requests :
        /\ breq[r].calls <= 1
        /\ (breq[r].pc \in {"rpc", "reply"} \/ (Finished(r) /\ aclsEnabled[breq[r].node]))
              => breq[r].calls = 1
        /\ (Finished(r) /\ breq[r].rpcErr # NilErr) =>
              /\ breq[r].ret = NoResponse
              /\ IF Contains(breq[r].rpcErr, ACLBootstrapNotAllowedErr)
                   THEN breq[r].status = 403 /\ breq[r].err = NilErr
                   ELSE breq[r].err = breq[r].rpcErr /\ breq[r].status = 0

C3_Witness ==
    \E r \in Requests, q \in Requests :
        /\ Finished(r) /\ breq[r].rpcErr = NoLeaderErr /\ breq[r].err = NoLeaderErr
        /\ Finished(q) /\ breq[q].rpcErr = WrappedNotAllowedErr /\ breq[q].status = 403
        /\ breq[r].calls = 1 /\ breq[q].calls = 1

---------------------------------------------------------------------------
(* The update command: resolution and reconciliation.                      *)

\* what resolving the non-empty partial p against S must give
ResolvesAs(p, S, id, err) ==
    LET M == {x \in S : HasPrefix(x, p)} IN
    /\ p \in S => (err = "" /\ id = p)
    /\ (p \notin S /\ Cardinality(M) = 1) => (err = "" /\ id \in M)
    /\ M = {} => err = "NotFound"
    /\ (p \notin S /\ Cardinality(M) >= 2) => err = "AmbiguousIdentifier"

\* C4: a non-empty partial identifier resolves, for token AccessorIDs and
\* policy IDs alike, to the only listed identifier it is a prefix of, to
\* NotFound when there is none, to AmbiguousIdentifier when there are
\* several and none equals it, and to itself when it is listed verbatim.
C4_PrefixResolution ==
    \A c \in Cmds :
        LET k == cmd[c] IN
        /\ k.tokErr \notin {"unset", "RPC"} =>
              ResolvesAs(k.tokenID, DOMAIN tokens, k.resolvedID, k.tokErr)
        /\ k.pc \in {"read", "reconcile", "update"} => k.tokErr = ""
        /\ k.polErr # "unset" =>
              /\ \A i \in 1..Len(k.resolvedPolicies) :
                    ResolvesAs(k.policyIDs[i], PolicyIDSet, k.resolvedPolicies[i], "")
              /\ k.polErr \notin {"", "RPC"} =>
                    ResolvesAs(k.policyIDs[Len(k.resolvedPolicies) + 1], PolicyIDSet,
                               NoID, k.polErr)
              /\ k.polErr = "" => Len(k.resolvedPolicies) = Len(k.policyIDs)

C4_Witness ==
    /\ cmd[1].tokenID = <<"a">> /\ DOMAIN tokens = {<<"a", "b">>}
    /\ cmd[1].resolvedID = <<"a", "b">>
    /\ PolicyIDSet = {<<"p", "p">>, <<"p", "q">>}
    /\ cmd[1].policyIDs = <<<<"p", "q">>, <<"p">>>>
    /\ cmd[1].resolvedPolicies = <<<<"p", "q">>>>
    /\ cmd[1].polErr = "AmbiguousIdentifier"

\* C5: merge reconciliation is idempotent: when the same merge request is
\* run again on the token its first run stored (policy list unchanged), the
\* links it computes and stores are those the first run stored.
C5_MergeIdempotent ==
    \A c \in Cmds :
        LET k == cmd[c] IN
        (k.mergePolicies /\ k.runs >= 2 /\ k.polErr = "") =>
            k.token.Policies = tokens[k.resolvedID].Policies

C5_Witness ==
    /\ cmd[1].mergePolicies /\ cmd[1].runs = 2 /\ cmd[1].exit = 0
    /\ cmd[1].policyNames = <<"write", "write">>
    /\ cmd[1].policyIDs = <<<<"p">>, <<"p", "q">>>>
    /\ Len(tokens[cmd[1].resolvedID].Policies) = 4

NameLinks(names) == [i \in 1..Len(names) |-> [ID |-> NoID, Name |-> names[i]]]
IDLinks(ids) == [i \in 1..Len(ids) |-> [ID |-> ids[i], Name |-> ""]]

\* C6: replace reconciliation is exact: whatever the prior links, the links
\* sent to the store are the requested names as Name-links in caller order,
\* then the requested IDs, resolved, as ID-links in caller order; nothing
\* else; none at all for an empty request.
C6_ReplaceExact ==
    \A c \in Cmds :
        LET k == cmd[c] IN
        (~k.mergePolicies /\ k.polErr = "") =>
            /\ Len(k.resolvedPolicies) = Len(k.policyIDs)
            /\ k.token.Policies = NameLinks(k.policyNames) \o IDLinks(k.resolvedPolicies)
            /\ (k.policyNames = <<>> /\ k.policyIDs = <<>>) => k.token.Policies = <<>>
            /\ k.exit = 0 => tokens[k.resolvedID].Policies = k.token.Policies

C6_Witness ==
    /\ ~cmd[1].mergePolicies /\ cmd[1].pc = "update"
    /\ tokens[cmd[1].resolvedID].Policies =
          <<[ID |-> <<"p", "p">>, Name |-> "read-only"], NameLink("write")>>
    /\ cmd[1].policyNames = <<"write", "read-only">>
    /\ cmd[1].policyIDs = <<<<"p", "q">>, <<"p">>>>
    /\ cmd[1].token.Policies =
          <<NameLink("write"), NameLink("read-only"), IDLink(<<"p", "q">>), IDLink(<<"p">>)>>

\* the elements of s, each at its first occurrence only
RECURSIVE FirstOccurrences(_)
FirstOccurrences(s) ==
    IF s = <<>> THEN <<>>
    ELSE LET d == FirstOccurrences(SubSeq(s, 1, Len(s) - 1))
             x == s[Len(s)]
         IN IF \E i \in 1..Len(d) : d[i] = x THEN d ELSE Append(d, x)

\* the links merge mode must add to the links old
NewNames(old, names) ==
    SelectSeq(FirstOccurrences(names),
              LAMBDA n : \A i \in 1..Len(old) : old[i].Name # n)
NewIDs(old, ids) ==
    SelectSeq(FirstOccurrences(ids),
              LAMBDA d : \A i \in 1..Len(old) : old[i].ID # d)

\* C7: merge reconciliation keeps every existing link, in its order, as a
\* prefix of the result, then one Name-link per requested name not already
\* present, then one ID-link per requested ID not already present.
C7_MergePreserves ==
    \A c \in Cmds :
        LET k == cmd[c]
            old == tokens[k.resolvedID].Policies
        IN (k.mergePolicies /\ k.pc = "update") =>
              k.token.Policies =
                 old \o NameLinks(NewNames(old, k.policyNames))
                     \o IDLinks(NewIDs(old, k.resolvedPolicies))

C7_Witness ==
    /\ cmd[1].mergePolicies /\ cmd[1].pc = "update" /\ cmd[1].runs = 1
    /\ tokens[cmd[1].resolvedID].Policies = <<NameLink("read-only")>>
    /\ cmd[1].policyNames = <<"write">>
    /\ cmd[1].policyIDs = <<<<"p", "q">>>>
    /\ cmd[1].token.Policies =
          <<NameLink("read-only"), NameLink("write"), IDLink(<<"p", "q">>)>>

\* C8: in merge mode "already present" compares identifiers of one kind: a
\* requested name is skipped only when an existing link has that Name, a
\* requested ID only when an existing link has that ID; a token linked to a
\* policy by Name alone that receives the same policy by ID has both links.
C8_SameKindOnly ==
    \A c \in Cmds :
        LET k == cmd[c]
            old == tokens[k.resolvedID].Policies
            new == k.token.Policies
            Count(links, l) == Cardinality({i \in 1..Len(links) : links[i] = l})
        IN (k.mergePolicies /\ k.pc = "update") =>
              /\ \A i \in 1..Len(k.policyNames) :
                    LET n == k.policyNames[i] IN
                    Count(new, NameLink(n)) =
                       IF \E j \in 1..Len(old) : old[j].Name = n
                         THEN Count(old, NameLink(n))
                         ELSE 1
              /\ \A i \in 1..Len(k.resolvedPolicies) :
                    LET d == k.resolvedPolicies[i] IN
                    Count(new, IDLink(d)) =
                       IF \E j \in 1..Len(old) : old[j].ID = d
                         THEN Count(old, IDLink(d))
                         ELSE 1
              /\ \A p \in policies :
                    (/\ \E j \in 1..Len(old) : old[j] = NameLink(p.Name)
                     /\ \A j \in 1..Len(old) : old[j].ID # p.ID
                     /\ \E i \in 1..Len(k.resolvedPolicies) : k.resolvedPolicies[i] = p.ID)
                    => /\ \E j \in 1..Len(new) : new[j] = NameLink(p.Name)
                       /\ \E j \in 1..Len(new) : new[j] = IDLink(p.ID)

C8_Witness ==
    /\ cmd[1].mergePolicies /\ cmd[1].pc = "update"
    /\ [ID |-> <<"p", "q">>, Name |-> "write"] \in policies
    /\ tokens[cmd[1].resolvedID].Policies =
          <<[ID |-> <<"p", "p">>, Name |-> "read-only"], NameLink("write")>>
    /\ cmd[1].policyIDs = <<<<"p", "q">>>>
    /\ cmd[1].policyNames = <<>>
    /\ cmd[1].token.Policies =
          <<[ID |-> <<"p", "p">>, Name |-> "read-only"], NameLink("write"),
            IDLink(<<"p", "q">>)>>

\* the messages of the failures found before the store is written
LocalFailures ==
    { "flag parse error",
      "Cannot update a token without specifying the -id parameter",
      "Error connecting to Consul agent",
      "Error determining token ID",
      "Error when retrieving current token",
      "Error resolving policy ID" }

\* C9: an empty -id, a token that does not resolve or cannot be read, and a
\* policy ID that does not resolve (merge or replace) each make Run return 1
\* without a TokenUpdate call, the stored tokens unchanged; Run returns 0
\* only after its TokenUpdate has written the token.
C9_FailBeforeUpdate ==
    /\ [](\A c \in Cmds :
            LET k == cmd[c] IN
            /\ k.msg \in LocalFailures => (k.exit = 1 /\ k.updates = 0)
            /\ (k.pc = "done" /\ k.tokenID = NoID) => (k.exit = 1 /\ k.updates = 0)
            /\ k.tokErr \notin {"unset", ""} => (k.exit = 1 /\ k.updates = 0)
            /\ k.polErr \notin {"unset", ""} => (k.exit = 1 /\ k.updates = 0)
            /\ k.pc = "done" => k.exit \in {0, 1}
            /\ k.exit = 0 => (k.updates = 1 /\ tokens[k.resolvedID] = k.token))
    /\ [][tokens' # tokens =>
            \E c \in Cmds :
                /\ cmd[c].pc = "update" /\ cmd'[c].exit = 0
                /\ cmd[c].tokErr = "" /\ cmd[c].polErr = ""
                /\ cmd[c].tokenID # NoID]_vars

C9_Witness ==
    /\ cmd[1].mergePolicies /\ cmd[1].exit = 1 /\ cmd[1].updates = 0
    /\ cmd[1].polErr = "NotFound"
    /\ cmd[1].policyNames = <<"write">>
    /\ cmd[1].token.Policies # tokens[cmd[1].resolvedID].Policies

---------------------------------------------------------------------------
(* The handlers' specification: requests arrive one at a time at any node. *)

HTTPIds == {"", "x", "y"}
HTTPMethods == {"GET", "PUT", "DELETE", "POST"}
HTTPIdTypes == {"", "id", "name", "uuid"}
HTTPCreds == {"", "root"}
TokenBodies ==
    {[decoded |-> FALSE, obj |-> [AccessorID |-> "", Description |-> ""]]}
    \cup {[decoded |-> TRUE, obj |-> [AccessorID |-> a, Description |-> "d"]] : a \in HTTPIds}
PolicyBodies ==
    {[decoded |-> FALSE, obj |-> [ID |-> "", Name |-> "", Syntax |-> ""]]}
    \cup {[decoded |-> TRUE, obj |-> [ID |-> i, Name |-> nm, Syntax |-> "legacy"]] :
             i \in HTTPIds, nm \in HTTPIds}
RuleBodies ==
    {[decoded |-> FALSE, obj |-> [Rules |-> ""]]}
    \cup {[decoded |-> TRUE, obj |-> [Rules |-> t]] : t \in RuleTexts}

Received(handler, n, method, path, idType, cred, body) ==
    [NoHTTP EXCEPT !.phase = "received", !.handler = handler, !.node = n,
                   !.method = method, !.path = path, !.idType = idType,
                   !.cred = cred, !.body = body]

\* a request arrives at node n and is routed to its handler
HTTPRequest ==
    /\ http.phase = "idle"
    /\ \E n \in Nodes, cred \in HTTPCreds :
         \/ \E method \in HTTPMethods, path \in HTTPIds, body \in TokenBodies :
               http' = Received("ACLTokenCRUD", n, method, path, "", cred, body)
         \/ \E body \in TokenBodies :
               http' = Received("ACLTokenCreate", n, "PUT", "", "", cred, body)
         \/ \E path \in HTTPIds, body \in TokenBodies :
               http' = Received("ACLTokenUpgrade", n, "PUT", path, "", cred, body)
         \/ \E path \in HTTPIds, body \in TokenBodies :
               http' = Received("ACLTokenClone", n, "PUT", path, "", cred, body)
         \/ \E method \in HTTPMethods, path \in HTTPIds, idType \in HTTPIdTypes,
               body \in PolicyBodies :
               http' = Received("ACLPolicyCRUD", n, method, path, idType, cred, body)
         \/ \E body \in PolicyBodies :
               http' = Received("ACLPolicyCreate", n, "PUT", "", "", cred, body)
         \/ http' = Received("ACLReplicationStatus", n, "GET", "", "", cred, NoBody)
         \/ \E body \in RuleBodies :
               http' = Received("ACLRulesTranslate", n, "POST", "", "", cred, body)
         \/ \E path \in HTTPIds :
               http' = Received("ACLRulesTranslateLegacyToken", n, "GET", path, "",
                                cred, NoBody)
         \/ http' = Received("ACLPolicyList", n, "GET", "", "", cred, NoBody)
         \/ http' = Received("ACLTokenList", n, "GET", "", "", cred, NoBody)
         \/ http' = Received("ACLTokenSelf", n, "GET", "", "", cred, NoBody)
    /\ UNCHANGED <<bootVars, updateVars, certVars>>

\* the answer is written out; the server takes the next request
HTTPRespond ==
    /\ http.phase = "answered"
    /\ http' = NoHTTP
    /\ UNCHANGED <<bootVars, updateVars, certVars>>

HTTPInit ==
    /\ aclsEnabled \in [Nodes -> BOOLEAN]
    /\ bootstrapped = FALSE
    /\ issuedSecrets = {}
    /\ breq = [r \in Requests |-> IdleRequest]
    /\ tokens = <<>>
    /\ policies = {}
    /\ cmd = [c \in Cmds |-> OffCommand]
    /\ http = NoHTTP
    /\ files = {}
    /\ tlscmd = OffCert

HTTPNext ==
    \/ HTTPRequest
    \/ ACLTokenCRUD
    \/ ACLTokenCreate
    \/ ACLTokenUpgrade
    \/ ACLTokenClone
    \/ ACLPolicyCRUD
    \/ ACLPolicyCreate
    \/ ACLReplicationStatus
    \/ ACLRulesTranslate
    \/ ACLRulesTranslateLegacyToken
    \/ ACLPolicyList
    \/ ACLTokenList
    \/ ACLTokenSelf
    \/ HTTPRespond

SpecHTTP == HTTPInit /\ [][HTTPNext]_vars

---------------------------------------------------------------------------
(* The handlers: identifiers of the URL and of the payload.                *)

Enabled(n) == n \in Nodes /\ aclsEnabled[n]

\* the answered request is a token write, a token upgrade or a policy write
\* addressed by ID that got as far as comparing the identifiers
TokenWriteHandled ==
    /\ http.phase = "answered" /\ Enabled(http.node) /\ http.body.decoded
    /\ \/ http.handler = "ACLTokenCRUD" /\ http.method = "PUT"
       \/ http.handler = "ACLTokenCreate"
TokenUpgradeHandled ==
    /\ http.phase = "answered" /\ Enabled(http.node) /\ http.body.decoded
    /\ http.handler = "ACLTokenUpgrade" /\ http.path # ""
PolicyWriteByIDHandled ==
    /\ http.phase = "answered" /\ http.body.decoded
    /\ \/ /\ http.handler = "ACLPolicyCRUD" /\ http.method = "PUT"
          /\ Enabled(http.node) /\ http.idType \in {"", "id"}
       \/ http.handler = "ACLPolicyCreate"

\* the three cases of the claim, for the identifier of the URL, that of the
\* payload, and the one in the request the store got (sent, when issued)
IdentifierRule(pathID, payloadID, issued, sentID) ==
    /\ payloadID = "" => (issued /\ sentID = pathID)
    /\ (payloadID # "" /\ pathID # "" /\ payloadID # pathID) =>
          (~issued /\ http.rpc = NoRPC /\ http.err.kind = "BadRequest")
    /\ (payloadID # "" /\ payloadID = pathID) => (issued /\ sentID = payloadID)

\* C10: a token write, a token upgrade and a policy write by ID adopt the
\* URL's identifier when the payload has none, fail with BadRequest and no
\* store call when both are given and differ, and send the payload's
\* identifier unchanged when they are equal.
C10_IdentifierConsistency ==
    /\ TokenWriteHandled =>
          LET issued == http.rpc.method = "ACL.TokenUpsert" IN
          IdentifierRule(http.path, http.body.obj.AccessorID, issued,
                         IF issued THEN http.rpc.ACLToken.AccessorID ELSE "")
    /\ TokenUpgradeHandled =>
          LET issued == http.rpc.method = "ACL.TokenUpgrade" IN
          IdentifierRule(http.path, http.body.obj.AccessorID, issued,
                         IF issued THEN http.rpc.ACLToken.AccessorID ELSE "")
    /\ PolicyWriteByIDHandled =>
          LET issued == http.rpc.method = "ACL.PolicyUpsert" IN
          IdentifierRule(http.path, http.body.obj.ID, issued,
                         IF issued THEN http.rpc.Policy.ID ELSE "")

C10_Witness ==
    /\ PolicyWriteByIDHandled
    /\ http.handler = "ACLPolicyCRUD" /\ http.path = "x" /\ http.body.obj.ID = ""
    /\ http.rpc.method = "ACL.PolicyUpsert" /\ http.rpc.Policy.ID = "x"
    /\ http.ret = "out"

\* the answered request is a policy write addressed by Name that got as far
\* as comparing the names
PolicyWriteByNameHandled ==
    /\ http.phase = "answered" /\ http.body.decoded
    /\ http.handler = "ACLPolicyCRUD" /\ http.method = "PUT"
    /\ Enabled(http.node) /\ http.idType = "name"

\* C11: a policy write addressed by Name adopts the URL's name as the policy
\* Name of the upsert request when the payload has none, and fails with
\* BadRequest and no store call when both names are given and differ.
C11_NameConsistency ==
    PolicyWriteByNameHandled =>
        LET issued == http.rpc.method = "ACL.PolicyUpsert"
            payloadName == http.body.obj.Name
        IN /\ payloadName = "" => (issued /\ http.rpc.Policy.Name = http.path)
           /\ (payloadName # "" /\ http.path # "" /\ payloadName # http.path) =>
                 (~issued /\ http.rpc = NoRPC /\ http.err.kind = "BadRequest")

---------------------------------------------------------------------------
(* The handlers: reads and deletes need an identifier.                     *)

\* the answered request went through one of the two dispatchers
Dispatched ==
    http.phase = "answered" /\ http.handler \in {"ACLTokenCRUD", "ACLPolicyCRUD"}

\* C12: a GET or DELETE through ACLTokenCRUD or ACLPolicyCRUD with an empty
\* path identifier issues no store call and, on an agent with ACLs enabled,
\* fails with BadRequest; no TokenRead, TokenDelete, PolicyRead or
\* PolicyDelete request the dispatchers issue carries an empty identifier.
C12_MissingIdentifier ==
    Dispatched =>
        /\ (http.method \in {"GET", "DELETE"} /\ http.path = "") =>
              /\ http.rpc = NoRPC
              /\ Enabled(http.node) =>
                    (http.err.kind = "BadRequest" /\ http.ret = "nil" /\ http.status = 0)
        /\ http.rpc.method \in {"ACL.TokenRead", "ACL.TokenDelete"} =>
              http.rpc.TokenID # ""
        /\ http.rpc.method \in {"ACL.PolicyRead", "ACL.PolicyDelete"} =>
              http.rpc.PolicyID # ""

C12_Witness ==
    /\ Dispatched /\ Enabled(http.node)
    /\ http.handler = "ACLTokenCRUD" /\ http.method = "DELETE" /\ http.path = ""
    /\ http.err = [kind |-> "BadRequest", reason |-> "Missing token ID"]
    /\ http.rpc = NoRPC

---------------------------------------------------------------------------
(* The handlers: the requester's credential.                               *)

MutatingRPCs ==
    {"ACL.PolicyUpsert", "ACL.PolicyDelete", "ACL.TokenUpsert", "ACL.TokenDelete",
     "ACL.TokenClone", "ACL.TokenUpgrade"}

\* C13: the request a mutating handler (policy write and delete; token
\* write, delete, clone and upgrade) hands to the store carries the
\* credential the requester supplied, whatever the payload holds.
C13_CredentialThreaded ==
    (http.phase = "answered" /\ http.rpc.method \in MutatingRPCs) =>
        http.rpc.Token = http.cred

C13_Witness ==
    /\ http.phase = "answered" /\ http.handler = "ACLTokenClone"
    /\ http.cred = "root" /\ http.path = "x"
    /\ http.body.decoded /\ http.body.obj.AccessorID = "y"
    /\ http.rpc.method = "ACL.TokenClone" /\ http.rpc.Token = "root"
    /\ http.rpc.ACLToken.AccessorID = "x"

---------------------------------------------------------------------------
(* The handlers: ACLs disabled.                                            *)

\* the answered request met an agent with ACLs disabled
AnsweredDisabled ==
    http.phase = "answered" /\ http.node \in Nodes /\ ~aclsEnabled[http.node]

\* C14: with ACLs disabled every entry point (bootstrap, replication
\* status, both rules translations, policy list, create and CRUD, token
\* list, create, CRUD, self, clone and upgrade) answers with the "ACL
\* support disabled" response and issues no store call.
C14_DisabledEverywhere ==
    /\ AnsweredDisabled =>
          /\ http.status = 401
          /\ http.written = [text |-> "ACL support disabled"]
          /\ http.rpc = NoRPC
          /\ http.ret = "nil" /\ http.err = NilError
    /\ \A r \in Requests :
          (Finished(r) /\ ~aclsEnabled[breq[r].node]) =>
              (breq[r].status = 401 /\ breq[r].calls = 0 /\ breq[r].ret = NoResponse)

---------------------------------------------------------------------------
(* The handlers: the legacy rules of a token.                              *)

LegacyTokenAnswered ==
    http.phase = "answered" /\ http.handler = "ACLRulesTranslateLegacyToken"

\* the token read was issued and the store answered it
TokenReadAnswered == http.rpc # NoRPC /\ http.err.kind # "Operational"

\* C15: translating a token's legacy rules fails with BadRequest and no
\* store call for an empty token ID, with NotFound for a token the store
\* does not hold, and with an error for a token whose Rules are empty; in
\* these cases the translator is not called and nothing is written. Output
\* is written only for a token that exists with rules that translate.
C15_LegacyTokenTranslate ==
    LegacyTokenAnswered =>
        /\ http.path = "" =>
              /\ http.err = [kind |-> "BadRequest", reason |-> "Missing token ID"]
              /\ http.rpc = NoRPC
              /\ ~http.translated /\ http.written = NothingWritten
        /\ (TokenReadAnswered /\ ~http.seen.found) =>
              /\ http.err.kind = "NotFound"
              /\ ~http.translated /\ http.written = NothingWritten
        /\ (TokenReadAnswered /\ http.seen.found /\ http.seen.rules = "") =>
              /\ http.err = [kind |-> "Error",
                             reason |-> "The specified token does not have any rules set"]
              /\ ~http.translated /\ http.written = NothingWritten
        /\ http.written # NothingWritten =>
              /\ TokenReadAnswered /\ http.seen.found /\ http.seen.rules # ""
              /\ http.translated
              /\ TranslateLegacyRules(http.seen.rules).err = ""
              /\ http.written = TranslateLegacyRules(http.seen.rules).out
              /\ http.err = NilError

C15_Witness ==
    /\ LegacyTokenAnswered /\ http.path = "x"
    /\ http.rpc = [method |-> "ACL.TokenRead", TokenID |-> "x", TokenIDType |-> "accessor"]
    /\ http.seen = [found |-> TRUE, rules |-> ""]
    /\ http.err.kind = "Error" /\ ~http.translated /\ http.written = NothingWritten

---------------------------------------------------------------------------
(* The handlers: create.                                                   *)

MismatchReasons ==
    {"Token Accessor ID in URL and payload do not match",
     "Policy ID in URL and payload do not match",
     "Policy Name in URL and payload do not match"}

CreateAnswered ==
    http.phase = "answered" /\ http.handler \in {"ACLTokenCreate", "ACLPolicyCreate"}

\* C16: a create (ACLTokenCreate, ACLPolicyCreate) has no path identifier:
\* the payload's identifier, empty or not, is the one in the request handed
\* to the store, and the URL/payload mismatch error is never raised.
C16_CreateAsGiven ==
    CreateAnswered =>
        /\ http.path = ""
        /\ http.err.reason \notin MismatchReasons
        /\ (http.handler = "ACLTokenCreate" /\ http.body.decoded /\ Enabled(http.node)) =>
              /\ http.rpc.method = "ACL.TokenUpsert"
              /\ http.rpc.ACLToken.AccessorID = http.body.obj.AccessorID
        /\ (http.handler = "ACLPolicyCreate" /\ http.body.decoded) =>
              /\ http.rpc.method = "ACL.PolicyUpsert"
              /\ http.rpc.Policy.ID = http.body.obj.ID

C16_Witness ==
    /\ CreateAnswered /\ http.handler = "ACLTokenCreate"
    /\ http.body.decoded /\ http.body.obj.AccessorID = "x"
    /\ http.rpc.method = "ACL.TokenUpsert" /\ http.rpc.ACLToken.AccessorID = "x"
    /\ http.ret = "out"

---------------------------------------------------------------------------
(* The handlers: the dispatch of ACLPolicyCRUD.                            *)

PolicyCRUDAnswered ==
    /\ http.phase = "answered" /\ http.handler = "ACLPolicyCRUD"
    /\ Enabled(http.node)

\* the addressing mode the idType parameter stands for
ModeOf(idType) == IF idType = "name" THEN "name" ELSE "id"

\* C17: ACLPolicyCRUD takes the addressing mode from idType: absent or "id"
\* is ID addressing, "name" is Name addressing, any other value fails with
\* BadRequest and no store call; a method other than GET, PUT and DELETE
\* fails with MethodNotAllowed and no store call.
C17_PolicyDispatch ==
    PolicyCRUDAnswered =>
        /\ http.method \notin {"GET", "PUT", "DELETE"} =>
              (http.err.kind = "MethodNotAllowed" /\ http.rpc = NoRPC)
        /\ (http.method \in {"GET", "PUT", "DELETE"}
              /\ http.idType \notin {"", "id", "name"}) =>
              (http.err.kind = "BadRequest" /\ http.rpc = NoRPC)
        /\ http.rpc.method \in {"ACL.PolicyRead", "ACL.PolicyDelete"} =>
              /\ http.idType \in {"", "id", "name"}
              /\ http.rpc.PolicyIDType = ModeOf(http.idType)
        /\ (http.method = "PUT" /\ http.idType \in {"", "id", "name"}
              /\ http.body.decoded /\ http.path # "") =>
              LET given == IF ModeOf(http.idType) = "id" THEN http.body.obj.ID
                                                          ELSE http.body.obj.Name
              IN IF given # "" /\ given # http.path
                   THEN /\ http.rpc = NoRPC
                        /\ http.err.reason =
                              IF ModeOf(http.idType) = "id"
                                THEN "Policy ID in URL and payload do not match"
                                ELSE "Policy Name in URL and payload do not match"
                   ELSE http.rpc.method = "ACL.PolicyUpsert"

C17_Witness ==
    /\ PolicyCRUDAnswered /\ http.method = "DELETE" /\ http.idType = "name"
    /\ http.path = "x"
    /\ http.rpc.method = "ACL.PolicyDelete" /\ http.rpc.PolicyIDType = "name"
    /\ http.rpc.PolicyID = "x" /\ http.ret = "true"

---------------------------------------------------------------------------
(* Two update commands racing on one token: each is New, then Run once, in *)
(* merge mode, and adds a policy name of its own.                          *)

RaceToken == <<"a", "b">>
RaceName(c) == IF c = 1 THEN "read-only" ELSE "write"
RaceLinks == { <<>>, <<IDLink(<<"p", "q">>)>> }

RaceInit ==
    /\ aclsEnabled = [n \in Nodes |-> TRUE]
    /\ bootstrapped = FALSE
    /\ issuedSecrets = {}
    /\ breq = [r \in Requests |-> IdleRequest]
    /\ http = NoHTTP
    /\ files = {}
    /\ tlscmd = OffCert
    /\ \E links \in RaceLinks : tokens = [a \in {RaceToken} |-> StoredToken(a, links)]
    /\ policies \in PolicySets
    /\ \E id \in {<<"a">>, RaceToken}, desc \in [Cmds -> Descriptions] :
          cmd = [c \in Cmds |->
                   NewCommand(IF c = 1 THEN id ELSE RaceToken, <<RaceName(c)>>, <<>>,
                              desc[c], TRUE)]

RaceNext ==
    \/ \E c \in Cmds : RunStart(c)
    \/ \E c \in Cmds : RunResolveToken(c)
    \/ \E c \in Cmds : RunTokenRead(c)
    \/ \E c \in Cmds : RunReconcile(c)
    \/ \E c \in Cmds : RunTokenUpdate(c)

SpecRace == RaceInit /\ [][RaceNext]_vars

HasName(links, name) == \E i \in 1..Len(links) : links[i] = NameLink(name)
BothUpdated == \A c \in Cmds : cmd[c].pc = "done" /\ cmd[c].exit = 0
Other(c) == CHOOSE d \in Cmds : d # c

\* C18 as stated: once both commands have completed successfully the stored
\* token's links contain both names.
C18_NoLostUpdate ==
    BothUpdated => \A c \in Cmds : HasName(tokens[RaceToken].Policies, RaceName(c))

\* C18, amended: once both commands have completed successfully the stored
\* token is the one the last TokenUpdate sent; its links contain both names
\* when one command read the token after the other's update was stored, and
\* exactly one of the names otherwise (the earlier update is lost).
C18_LastWriteWins ==
    BothUpdated =>
        LET stored == tokens[RaceToken].Policies
            ReadAfter(c) == HasName(cmd[c].token.Policies, RaceName(Other(c)))
        IN /\ \E c \in Cmds : tokens[RaceToken] = cmd[c].token
           /\ \A c \in Cmds : HasName(cmd[c].token.Policies, RaceName(c))
           /\ (\E c \in Cmds : ReadAfter(c)) =>
                 \A c \in Cmds : HasName(stored, RaceName(c))
           /\ (\A c \in Cmds : ~ReadAfter(c)) =>
                 Cardinality({c \in Cmds : HasName(stored, RaceName(c))}) = 1

C18_Witness ==
    /\ BothUpdated
    /\ cmd[1].tokenID = <<"a">> /\ cmd[1].resolvedID = RaceToken
    /\ tokens[RaceToken].Policies = <<IDLink(<<"p", "q">>), NameLink("write")>>
    /\ cmd[1].token.Policies = <<IDLink(<<"p", "q">>), NameLink("read-only")>>

---------------------------------------------------------------------------
(* The update command: what it changes of the token.                       *)

\* the fields of a token the command leaves alone
Identity(t) ==
    [AccessorID |-> t.AccessorID, SecretID |-> t.SecretID, Local |-> t.Local,
     CreateTime |-> t.CreateTime]

\* C19: the token sent to TokenUpdate is the token read from the store but
\* for Description and Policies: AccessorID, SecretID, Local and CreateTime
\* are as read, and Description is the -description value, the empty string
\* when it was omitted, in merge mode too; the stored token changes in
\* nothing else.
C19_OnlyDescriptionAndPolicies ==
    /\ [](\A c \in Cmds :
            LET k == cmd[c] IN
            /\ k.pc = "update" =>
                  /\ Identity(k.token) = Identity(tokens[k.resolvedID])
                  /\ k.token.Description = k.description
            /\ k.exit = 0 =>
                  /\ tokens[k.resolvedID].Description = k.description
                  /\ tokens[k.resolvedID].Policies = k.token.Policies)
    /\ [][\A a \in DOMAIN tokens :
            /\ a \in DOMAIN tokens'
            /\ Identity(tokens'[a]) = Identity(tokens[a])]_vars

C19_Witness ==
    /\ cmd[1].exit = 0 /\ cmd[1].mergePolicies /\ cmd[1].description = ""
    /\ cmd[1].runs = 1
    /\ tokens[cmd[1].resolvedID].Description = ""
    /\ tokens[cmd[1].resolvedID].SecretID = <<"secret-of-">> \o cmd[1].resolvedID
    /\ tokens[cmd[1].resolvedID].CreateTime = 1
    /\ Len(tokens[cmd[1].resolvedID].Policies) = 3

---------------------------------------------------------------------------
(* The "tls cert create" command: one run in a directory that other        *)
(* processes write to as well.                                             *)

\* the directories the command is run in: p is the prefix of its own files
CertDirs(p) ==
    { {},
      {CertFileName(p, 0)},
      {PkFileName(p, 0)},
      {CertFileName(p, 0), PkFileName(p, 1)},
      {CertFileName(<<"other", "-cli">>, 0), PkFileName(<<"other", "-cli">>, 0)},
      {IF i % 2 = 0 THEN CertFileName(p, i) ELSE PkFileName(p, i) : i \in 0..max},
      {CertFileName(p, i) : i \in 0..(max - 1)} }

\* a file another process creates while the command runs
OtherProcessCreates ==
    /\ tlscmd.pc \in {"choose", "generate", "saveCert", "savePk"}
    /\ \E name \in {CertFileName(tlscmd.prefix, 0), PkFileName(tlscmd.prefix, 0),
                    CertFileName(tlscmd.prefix, 3)} \ files :
         files' = files \cup {name}
    /\ UNCHANGED <<tlscmd, bootVars, updateVars, httpVars>>

CertInit ==
    /\ aclsEnabled = [n \in Nodes |-> TRUE]
    /\ bootstrapped = FALSE
    /\ issuedSecrets = {}
    /\ breq = [r \in Requests |-> IdleRequest]
    /\ tokens = <<>>
    /\ policies = {}
    /\ cmd = [c \in Cmds |-> OffCommand]
    /\ http = NoHTTP
    /\ \E ca \in {"", "consul-ca.pem"}, key \in {"", "consul-ca-key.pem"},
          server \in BOOLEAN, client \in BOOLEAN, cli \in BOOLEAN,
          args \in {<<>>, <<"my">>} :
          LET c == NewCert(ca, key, server, client, cli, args) IN
          /\ tlscmd = c
          /\ files \in CertDirs(Prefix(c))

CertNext ==
    \/ CertRunStart
    \/ CertChooseName
    \/ CertGenerate
    \/ CertSaveCert
    \/ CertSavePk
    \/ OtherProcessCreates

SpecCert == CertInit /\ [][CertNext]_vars

\* both names of index i under prefix p are free in the directory
FreeIndex(p, i) == CertFileName(p, i) \notin files /\ PkFileName(p, i) \notin files

====
